---- MODULE Spec2Model ----
(***************************************************************************)
(* Quantum battleship: the H-oracle-H line scanner (create_oracle,         *)
(* quantum_scan_line), the random ship placement (place_ships) and the     *)
(* game loop (play_quantum_battleship) of main.py.                         *)
(*                                                                         *)
(* Amplitudes are kept exactly.  Every gate of the circuit is a Hadamard   *)
(* or a diagonal of +1/-1, so a state vector is an integer vector amp      *)
(* together with the number hk of Hadamard gates applied so far: the       *)
(* amplitude of basis state i is amp[i] / sqrt(2)^hk and its probability   *)
(* is amp[i]^2 / 2^hk.  The simulator is the noiseless AerSimulator.       *)
(***************************************************************************)
EXTENDS Integers, Sequences, FiniteSets

(* ---------------------------- bounds ---------------------------------- *)
\* longest line handed to quantum_scan_line
MaxLen == 4
\* longest line handed to create_oracle on its own
MaxOracleLen == 9
\* largest board of the game
MaxSize == 2
\* most ships in SHIP_LENGTHS
MaxShips == 2

\* values a cell of a line may hold: 0, 1 and one value that is neither
Cells == {0, 1, 2}

Lines(maxlen) == UNION {[1..k -> Cells] : k \in 0..maxlen}

VARIABLES
  \* quantum_scan_line
  line_data, draw, pc, n_qubits, qc, ip, amp, hk, counts, shots_done, ret,
  \* create_oracle called on its own
  o_line, o_pc, o_ret,
  \* place_ships and play_quantum_battleship
  SIZE, SHIP_LENGTHS, g_pc, ship_idx, attempts, ship_coords, placed_lengths,
  skipped, hidden_board, known_board, row_status, col_status, scan_i,
  total_quantum_scans, candidates, cand_i, total_hits, ships_found

scan_vars == <<line_data, draw, pc, n_qubits, qc, ip, amp, hk, counts,
               shots_done, ret>>
oracle_vars == <<o_line, o_pc, o_ret>>
game_vars == <<SIZE, SHIP_LENGTHS, g_pc, ship_idx, attempts, ship_coords,
               placed_lengths, skipped, hidden_board, known_board, row_status,
               col_status, scan_i, total_quantum_scans, candidates, cand_i,
               total_hits, ships_found>>
vars == <<scan_vars, oracle_vars, game_vars>>

(* ---------------------------- arithmetic ------------------------------ *)
RECURSIVE Pow2(_)
Pow2(n) == IF n = 0 THEN 1 ELSE 2 * Pow2(n - 1)

\* math.ceil(math.log2(len)) for len >= 1: the least n with 2^n >= len
CeilLog2(len) == CHOOSE n \in 0..len : Pow2(n) >= len /\ \A m \in 0..(n - 1) : Pow2(m) < len

\* n_qubits of a non-empty line: ceil(log2(len)), raised to 1 when it is 0
NQubitsNoFloor(line) == CeilLog2(Len(line))
NQubits(line) == IF CeilLog2(Len(line)) = 0 THEN 1 ELSE CeilLog2(Len(line))

\* Python truthiness of a cell value ("if has_ship:")
TruthyOnlyOne(x) == x = 1
Truthy(x) == x # 0

(* ---------------------------- create_oracle --------------------------- *)
\* the list handed to DiagonalGate, indexed from 0
OraclePaddedMarked(line) ==
  IF line = <<>> THEN [i \in 0..0 |-> 1]
  ELSE [i \in 0..(Pow2(NQubits(line)) - 1) |->
          IF i < Len(line) THEN (IF Truthy(line[i + 1]) THEN -1 ELSE 1) ELSE -1]
create_oracle(line) ==
  IF line = <<>> THEN [i \in 0..0 |-> 1]
  ELSE [i \in 0..(Pow2(NQubits(line)) - 1) |->
          IF i < Len(line) /\ Truthy(line[i + 1]) THEN -1 ELSE 1]

(* ---------------------------- gates ----------------------------------- *)
Bit(i, q) == (i \div Pow2(q)) % 2

\* one Hadamard on qubit q, without its factor 1/sqrt(2)
HGateNoSign(v, q) ==
  [i \in DOMAIN v |-> IF Bit(i, q) = 0 THEN v[i] + v[i + Pow2(q)]
                                       ELSE v[i - Pow2(q)] + v[i]]
HGate(v, q) ==
  [i \in DOMAIN v |-> IF Bit(i, q) = 0 THEN v[i] + v[i + Pow2(q)]
                                       ELSE v[i - Pow2(q)] - v[i]]

\* qc.h(range(n)): a Hadamard on each of the qubits 0..n-1
RECURSIVE HLayer(_, _)
HLayer(v, n) == IF n = 0 THEN v ELSE HGate(HLayer(v, n - 1), n - 1)

\* DiagonalGate(phases) applied to the state
DiagonalSkipped(v, phases) == v
Diagonal(v, phases) == [i \in DOMAIN v |-> v[i] * phases[i]]

\* the register after initialisation: basis state |00...0>
ZeroState(n) == [i \in 0..(Pow2(n) - 1) |-> IF i = 0 THEN 1 ELSE 0]

\* the instructions quantum_scan_line puts in the circuit, in order
BuildCircuit(line) ==
  << [gate |-> "h"], [gate |-> "diag", phases |-> create_oracle(line)],
     [gate |-> "h"], [gate |-> "measure"] >>

\* SHOTS = n_qubits + 1
Shots(n) == n + 1

\* the verdict read off the counts
VerdictAnyZero(cnt, shots) == IF cnt[0] = 0 THEN "DETECT" ELSE "MISS"
Verdict(cnt, shots) == IF cnt[0] < shots THEN "DETECT" ELSE "MISS"

NoVec == <<>>

(* ---------------------------- quantum_scan_line ----------------------- *)
ScanInit ==
  /\ line_data \in Lines(MaxLen)
  /\ draw \in BOOLEAN
  /\ pc = "start"
  /\ n_qubits = 0
  /\ qc = <<>>
  /\ ip = 0
  /\ amp = NoVec
  /\ hk = 0
  /\ counts = NoVec
  /\ shots_done = 0
  /\ ret = "NONE"

\* lines 59-60: an empty line is a MISS, nothing is built
ScanEmpty ==
  /\ pc = "start"
  /\ line_data = <<>>
  /\ pc' = "done"
  /\ ret' = "MISS"
  /\ UNCHANGED <<line_data, draw, n_qubits, qc, ip, amp, hk, counts, shots_done>>
  /\ UNCHANGED <<oracle_vars, game_vars>>

\* lines 63-81: the qubit count and the circuit
ScanBuild ==
  /\ pc = "start"
  /\ line_data # <<>>
  /\ n_qubits' = NQubits(line_data)
  /\ qc' = BuildCircuit(line_data)
  /\ pc' = "built"
  /\ UNCHANGED <<line_data, draw, ip, amp, hk, counts, shots_done, ret>>
  /\ UNCHANGED <<oracle_vars, game_vars>>

\* lines 83-85: with draw the circuit is printed and returned
ScanDraw ==
  /\ pc = "built"
  /\ draw
  /\ pc' = "done"
  /\ ret' = "QC"
  /\ UNCHANGED <<line_data, draw, n_qubits, qc, ip, amp, hk, counts, shots_done>>
  /\ UNCHANGED <<oracle_vars, game_vars>>

\* lines 89-92: the simulator starts from |00...0>
ScanSimStart ==
  /\ pc = "built"
  /\ ~draw
  /\ amp' = ZeroState(n_qubits)
  /\ hk' = 0
  /\ ip' = 1
  /\ counts' = [i \in 0..(Pow2(n_qubits) - 1) |-> 0]
  /\ pc' = "sim"
  /\ UNCHANGED <<line_data, draw, n_qubits, qc, shots_done, ret>>
  /\ UNCHANGED <<oracle_vars, game_vars>>

\* the simulator applies a layer of Hadamards
ScanSimH ==
  /\ pc = "sim"
  /\ qc[ip].gate = "h"
  /\ amp' = HLayer(amp, n_qubits)
  /\ hk' = hk + n_qubits
  /\ ip' = ip + 1
  /\ UNCHANGED <<line_data, draw, pc, n_qubits, qc, counts, shots_done, ret>>
  /\ UNCHANGED <<oracle_vars, game_vars>>

\* the simulator applies the oracle
ScanSimDiag ==
  /\ pc = "sim"
  /\ qc[ip].gate = "diag"
  /\ amp' = Diagonal(amp, qc[ip].phases)
  /\ ip' = ip + 1
  /\ UNCHANGED <<line_data, draw, pc, n_qubits, qc, hk, counts, shots_done, ret>>
  /\ UNCHANGED <<oracle_vars, game_vars>>

\* the simulator reaches the measurement
ScanSimMeasure ==
  /\ pc = "sim"
  /\ qc[ip].gate = "measure"
  /\ pc' = "shots"
  /\ UNCHANGED <<line_data, draw, n_qubits, qc, ip, amp, hk, counts, shots_done, ret>>
  /\ UNCHANGED <<oracle_vars, game_vars>>

\* one shot: any basis state of non-zero probability may be measured
ScanShot ==
  /\ pc = "shots"
  /\ shots_done < Shots(n_qubits)
  /\ \E j \in DOMAIN amp :
       /\ amp[j] # 0
       /\ counts' = [counts EXCEPT ![j] = @ + 1]
  /\ shots_done' = shots_done + 1
  /\ UNCHANGED <<line_data, draw, pc, n_qubits, qc, ip, amp, hk, ret>>
  /\ UNCHANGED <<oracle_vars, game_vars>>

\* lines 97-109: the verdict
ScanInterpret ==
  /\ pc = "shots"
  /\ shots_done = Shots(n_qubits)
  /\ ret' = Verdict(counts, Shots(n_qubits))
  /\ pc' = "done"
  /\ UNCHANGED <<line_data, draw, n_qubits, qc, ip, amp, hk, counts, shots_done>>
  /\ UNCHANGED <<oracle_vars, game_vars>>

(* ---------------------------- create_oracle on its own ---------------- *)
OracleInit ==
  /\ o_line \in Lines(MaxOracleLen)
  /\ o_pc = "start"
  /\ o_ret = NoVec

OracleIdle == o_line = <<>> /\ o_pc = "idle" /\ o_ret = NoVec

\* lines 20-22
OracleEmpty ==
  /\ o_pc = "start"
  /\ o_line = <<>>
  /\ o_ret' = create_oracle(o_line)
  /\ o_pc' = "done"
  /\ UNCHANGED o_line
  /\ UNCHANGED <<scan_vars, game_vars>>

\* lines 24-38
OracleBuild ==
  /\ o_pc = "start"
  /\ o_line # <<>>
  /\ o_ret' = create_oracle(o_line)
  /\ o_pc' = "done"
  /\ UNCHANGED o_line
  /\ UNCHANGED <<scan_vars, game_vars>>

(* ---------------------------- place_ships ----------------------------- *)
\* line 150
max_retries == 100

\* lines 166-178: the cells of a ship of the given length laid from (r, c)
NewShip(orientation, r, c, length) ==
  {IF orientation = "horizontal" THEN <<r, c + i>> ELSE <<r + i, c>> : i \in 0..(length - 1)}

\* lines 158-163: the starting positions random.randint may return
StartRows(orientation, size, length) ==
  IF orientation = "horizontal" THEN 0..(size - 1) ELSE 0..(size - length)
StartCols(orientation, size, length) ==
  IF orientation = "horizontal" THEN 0..(size - length) ELSE 0..(size - 1)

\* lines 175-177: the placement is valid when no cell is already taken
ValidAlways(new_ship, coords) == TRUE
ValidPlacement(new_ship, coords) == new_ship \cap coords = {}

ShipLists(size) == UNION {[1..k -> 1..size] : k \in 0..MaxShips}

NoBoard == <<>>

GameInit ==
  /\ SIZE \in 1..MaxSize
  /\ SHIP_LENGTHS \in ShipLists(SIZE)
  /\ g_pc = "place"
  /\ ship_idx = 1
  /\ attempts = 0
  /\ ship_coords = {}
  /\ placed_lengths = <<>>
  /\ skipped = <<>>
  /\ hidden_board = NoBoard
  /\ known_board = NoBoard
  /\ row_status = <<>>
  /\ col_status = <<>>
  /\ scan_i = 0
  /\ total_quantum_scans = 0
  /\ candidates = <<>>
  /\ cand_i = 0
  /\ total_hits = 0
  /\ ships_found = 0

game_rest == <<hidden_board, known_board, row_status, col_status, scan_i,
               total_quantum_scans, candidates, cand_i, total_hits, ships_found>>

\* lines 154-183: one attempt that finds free cells; the ship is placed
PlaceAttemptOk ==
  /\ g_pc = "place"
  /\ ship_idx <= Len(SHIP_LENGTHS)
  /\ attempts < max_retries
  /\ LET length == SHIP_LENGTHS[ship_idx] IN
     \E orientation \in {"horizontal", "vertical"} :
     \E r \in StartRows(orientation, SIZE, length) :
     \E c \in StartCols(orientation, SIZE, length) :
       LET new_ship == NewShip(orientation, r, c, length) IN
         /\ ValidPlacement(new_ship, ship_coords)
         /\ ship_coords' = ship_coords \cup new_ship
         /\ placed_lengths' = Append(placed_lengths, length)
  /\ ship_idx' = ship_idx + 1
  /\ attempts' = 0
  /\ UNCHANGED <<SIZE, SHIP_LENGTHS, g_pc, skipped, game_rest>>
  /\ UNCHANGED <<scan_vars, oracle_vars>>

\* lines 154-177: one attempt that runs into a placed ship
PlaceAttemptFail ==
  /\ g_pc = "place"
  /\ ship_idx <= Len(SHIP_LENGTHS)
  /\ attempts < max_retries
  /\ LET length == SHIP_LENGTHS[ship_idx] IN
     \E orientation \in {"horizontal", "vertical"} :
     \E r \in StartRows(orientation, SIZE, length) :
     \E c \in StartCols(orientation, SIZE, length) :
       ~ValidPlacement(NewShip(orientation, r, c, length), ship_coords)
  /\ attempts' = attempts + 1
  /\ UNCHANGED <<SIZE, SHIP_LENGTHS, g_pc, ship_idx, ship_coords, placed_lengths,
                 skipped, game_rest>>
  /\ UNCHANGED <<scan_vars, oracle_vars>>

\* lines 185-186: max_retries attempts failed, the ship is given up with a warning
PlaceSkip ==
  /\ g_pc = "place"
  /\ ship_idx <= Len(SHIP_LENGTHS)
  /\ attempts = max_retries
  /\ skipped' = Append(skipped, SHIP_LENGTHS[ship_idx])
  /\ ship_idx' = ship_idx + 1
  /\ attempts' = 0
  /\ UNCHANGED <<SIZE, SHIP_LENGTHS, g_pc, ship_coords, placed_lengths, game_rest>>
  /\ UNCHANGED <<scan_vars, oracle_vars>>

\* line 188
PlaceReturn ==
  /\ g_pc = "place"
  /\ ship_idx > Len(SHIP_LENGTHS)
  /\ g_pc' = "placed"
  /\ UNCHANGED <<SIZE, SHIP_LENGTHS, ship_idx, attempts, ship_coords, placed_lengths,
                 skipped, game_rest>>
  /\ UNCHANGED <<scan_vars, oracle_vars>>

(* ---------------------------- play_quantum_battleship ----------------- *)
\* lines 113-119: the board as rows of cells; cell (r, c) is board[r + 1][c + 1]
create_board(size, ship_list) ==
  [r1 \in 1..size |-> [c1 \in 1..size |-> IF <<r1 - 1, c1 - 1>> \in ship_list THEN 1 ELSE 0]]

Column(board, size, c) == [r1 \in 1..size |-> board[r1][c + 1]]

\* the state vector quantum_scan_line measures for a non-empty line
FinalState(line) ==
  HLayer(Diagonal(HLayer(ZeroState(NQubits(line)), NQubits(line)), create_oracle(line)),
         NQubits(line))

\* get_counts() of a run whose shots measured the given basis states
CountsOf(samples, n) ==
  [i \in 0..(Pow2(n) - 1) |-> Cardinality({k \in DOMAIN samples : samples[k] = i})]

\* the verdicts quantum_scan_line(line) can return
ScanOutcomes(line) ==
  IF line = <<>> THEN {"MISS"}
  ELSE LET n == NQubits(line)
           final == FinalState(line)
           support == {j \in DOMAIN final : final[j] # 0}
       IN {Verdict(CountsOf(samples, n), Shots(n)) : samples \in [1..Shots(n) -> support]}

\* lines 196-198
GameNoShips ==
  /\ g_pc = "placed"
  /\ ship_coords = {}
  /\ g_pc' = "no_ships"
  /\ UNCHANGED <<SIZE, SHIP_LENGTHS, ship_idx, attempts, ship_coords, placed_lengths,
                 skipped, game_rest>>
  /\ UNCHANGED <<scan_vars, oracle_vars>>

\* lines 200-219; the scan of line 219 has draw=True and returns the circuit
GameSetup ==
  /\ g_pc = "placed"
  /\ ship_coords # {}
  /\ hidden_board' = create_board(SIZE, ship_coords)
  /\ known_board' = [r1 \in 1..SIZE |-> [c1 \in 1..SIZE |-> "?"]]
  /\ row_status' = [r1 \in 1..SIZE |-> "?"]
  /\ col_status' = [c1 \in 1..SIZE |-> "?"]
  /\ total_quantum_scans' = 0
  /\ scan_i' = 0
  /\ g_pc' = "rows"
  /\ UNCHANGED <<SIZE, SHIP_LENGTHS, ship_idx, attempts, ship_coords, placed_lengths,
                 skipped, candidates, cand_i, total_hits, ships_found>>
  /\ UNCHANGED <<scan_vars, oracle_vars>>

\* lines 223-232: row scan_i is scanned
ScanRow ==
  /\ g_pc = "rows"
  /\ scan_i < SIZE
  /\ \E v \in ScanOutcomes(hidden_board[scan_i + 1]) :
       /\ row_status' = [row_status EXCEPT ![scan_i + 1] = v]
       /\ known_board' = IF v = "MISS"
                         THEN [known_board EXCEPT ![scan_i + 1] = [c1 \in 1..SIZE |-> "O"]]
                         ELSE known_board
  /\ total_quantum_scans' = total_quantum_scans + 1
  /\ scan_i' = IF scan_i + 1 = SIZE THEN 0 ELSE scan_i + 1
  /\ g_pc' = IF scan_i + 1 = SIZE THEN "cols" ELSE "rows"
  /\ UNCHANGED <<SIZE, SHIP_LENGTHS, ship_idx, attempts, ship_coords, placed_lengths,
                 skipped, hidden_board, col_status, candidates, cand_i, total_hits,
                 ships_found>>
  /\ UNCHANGED <<scan_vars, oracle_vars>>

\* lines 236-246: column scan_i is scanned
ScanCol ==
  /\ g_pc = "cols"
  /\ scan_i < SIZE
  /\ \E v \in ScanOutcomes(Column(hidden_board, SIZE, scan_i)) :
       /\ col_status' = [col_status EXCEPT ![scan_i + 1] = v]
       /\ known_board' = IF v = "MISS"
                         THEN [r1 \in 1..SIZE |-> [known_board[r1] EXCEPT ![scan_i + 1] = "O"]]
                         ELSE known_board
  /\ total_quantum_scans' = total_quantum_scans + 1
  /\ scan_i' = IF scan_i + 1 = SIZE THEN 0 ELSE scan_i + 1
  /\ g_pc' = IF scan_i + 1 = SIZE THEN "candidates" ELSE "cols"
  /\ UNCHANGED <<SIZE, SHIP_LENGTHS, ship_idx, attempts, ship_coords, placed_lengths,
                 skipped, hidden_board, row_status, candidates, cand_i, total_hits,
                 ships_found>>
  /\ UNCHANGED <<scan_vars, oracle_vars>>

\* lines 258-260: the test that makes a cell a candidate
IsCandidateRowOnly(r, c) == row_status[r + 1] = "DETECT"
IsCandidate(r, c) ==
  /\ row_status[r + 1] = "DETECT"
  /\ col_status[c + 1] = "DETECT"
  /\ known_board[r + 1][c + 1] = "?"

\* the cells of the board in the order of the loops of lines 254-255
RECURSIVE CandidateList(_)
CandidateList(k) ==
  IF k = 0 THEN <<>>
  ELSE LET r == (k - 1) \div SIZE
           c == (k - 1) % SIZE
       IN IF IsCandidate(r, c) THEN Append(CandidateList(k - 1), <<r, c>>)
          ELSE CandidateList(k - 1)

\* lines 253-270
FindCandidates ==
  /\ g_pc = "candidates"
  /\ candidates' = CandidateList(SIZE * SIZE)
  /\ known_board' = [r1 \in 1..SIZE |-> [c1 \in 1..SIZE |->
                       IF IsCandidate(r1 - 1, c1 - 1) THEN "C" ELSE known_board[r1][c1]]]
  /\ total_hits' = 0
  /\ ships_found' = 0
  /\ cand_i' = 1
  /\ g_pc' = "probe"
  /\ UNCHANGED <<SIZE, SHIP_LENGTHS, ship_idx, attempts, ship_coords, placed_lengths,
                 skipped, hidden_board, row_status, col_status, scan_i,
                 total_quantum_scans>>
  /\ UNCHANGED <<scan_vars, oracle_vars>>

\* line 276: the probe of a candidate hits when the cell is in ship_set
ProbeHits(cell) == cell \in ship_coords

Mark(board, cell, m) == [board EXCEPT ![cell[1] + 1][cell[2] + 1] = m]

\* lines 272-279
ProbeHit ==
  /\ g_pc = "probe"
  /\ cand_i <= Len(candidates)
  /\ ProbeHits(candidates[cand_i])
  /\ total_hits' = total_hits + 1
  /\ known_board' = Mark(known_board, candidates[cand_i], "X")
  /\ ships_found' = ships_found + 1
  /\ cand_i' = cand_i + 1
  /\ UNCHANGED <<SIZE, SHIP_LENGTHS, g_pc, ship_idx, attempts, ship_coords,
                 placed_lengths, skipped, hidden_board, row_status, col_status, scan_i,
                 total_quantum_scans, candidates>>
  /\ UNCHANGED <<scan_vars, oracle_vars>>

\* lines 272-274, 280-282
ProbeMiss ==
  /\ g_pc = "probe"
  /\ cand_i <= Len(candidates)
  /\ ~ProbeHits(candidates[cand_i])
  /\ total_hits' = total_hits + 1
  /\ known_board' = Mark(known_board, candidates[cand_i], "O")
  /\ cand_i' = cand_i + 1
  /\ UNCHANGED <<SIZE, SHIP_LENGTHS, g_pc, ship_idx, attempts, ship_coords,
                 placed_lengths, skipped, hidden_board, row_status, col_status, scan_i,
                 total_quantum_scans, candidates, ships_found>>
  /\ UNCHANGED <<scan_vars, oracle_vars>>

\* lines 285-301: the final report
GameOver ==
  /\ g_pc = "probe"
  /\ cand_i > Len(candidates)
  /\ g_pc' = "done"
  /\ UNCHANGED <<SIZE, SHIP_LENGTHS, ship_idx, attempts, ship_coords, placed_lengths,
                 skipped, game_rest>>
  /\ UNCHANGED <<scan_vars, oracle_vars>>

(* ---------------------------- specifications -------------------------- *)
ScanIdle ==
  /\ line_data = <<>> /\ draw = FALSE /\ pc = "idle" /\ n_qubits = 0 /\ qc = <<>>
  /\ ip = 0 /\ amp = NoVec /\ hk = 0 /\ counts = NoVec /\ shots_done = 0
  /\ ret = "NONE"

GameIdle ==
  /\ SIZE = 0 /\ SHIP_LENGTHS = <<>> /\ g_pc = "idle" /\ ship_idx = 0
  /\ attempts = 0 /\ ship_coords = {} /\ placed_lengths = <<>> /\ skipped = <<>>
  /\ hidden_board = NoBoard /\ known_board = NoBoard /\ row_status = <<>>
  /\ col_status = <<>> /\ scan_i = 0 /\ total_quantum_scans = 0
  /\ candidates = <<>> /\ cand_i = 0 /\ total_hits = 0 /\ ships_found = 0

\* a call of quantum_scan_line
Init == ScanInit /\ OracleIdle /\ GameIdle
Next ==
  \/ ScanEmpty \/ ScanBuild \/ ScanDraw \/ ScanSimStart \/ ScanSimH
  \/ ScanSimDiag \/ ScanSimMeasure \/ ScanShot \/ ScanInterpret
Spec == Init /\ [][Next]_vars

\* a call of create_oracle
InitOracle == OracleInit /\ ScanIdle /\ GameIdle
NextOracle ==
  \/ OracleEmpty \/ OracleBuild
SpecOracle == InitOracle /\ [][NextOracle]_vars

\* a call of play_quantum_battleship
InitGame == GameInit /\ ScanIdle /\ OracleIdle
NextGame ==
  \/ PlaceAttemptOk \/ PlaceAttemptFail \/ PlaceSkip \/ PlaceReturn
  \/ GameNoShips \/ GameSetup \/ ScanRow \/ ScanCol \/ FindCandidates
  \/ ProbeHit \/ ProbeMiss \/ GameOver
SpecGame == InitGame /\ [][NextGame]_vars

\* a call of place_ships
InitPlace == InitGame
NextPlace ==
  \/ PlaceAttemptOk \/ PlaceAttemptFail \/ PlaceSkip \/ PlaceReturn
SpecPlace == InitPlace /\ [][NextPlace]_vars

(* ---------------------------- properties ------------------------------ *)
Binary(line) == \A i \in DOMAIN line : line[i] \in {0, 1}
AllZero(line) == Len(line) >= 1 /\ \A i \in DOMAIN line : line[i] = 0
HasMarked(line) == \E i \in DOMAIN line : line[i] = 1

\* the simulation of the circuit is over: amp is the state that is measured
Measured == pc = "shots" \/ (pc = "done" /\ ret \in {"MISS", "DETECT"} /\ line_data # <<>>)

RECURSIVE SumSeq(_)
SumSeq(sq) == IF sq = <<>> THEN 0 ELSE sq[1] + SumSeq(Tail(sq))

RECURSIVE SumFcn(_, _)
SumFcn(f, n) == IF n < 0 THEN 0 ELSE f[n] + SumFcn(f, n - 1)

\* C1: a line of one or more cells that are all 0 leaves the whole probability
\* on basis state 0 after H-oracle-H, and its scan returns MISS whatever the
\* shots measure.
C1_NoMarkedCellMiss ==
  (AllZero(line_data) /\ ~draw) =>
    /\ Measured => /\ \A j \in DOMAIN amp : j # 0 => amp[j] = 0
                   /\ amp[0] * amp[0] = Pow2(hk)
    /\ pc = "done" => ret = "MISS"

C1_Witness ==
  /\ AllZero(line_data) /\ Len(line_data) = 3 /\ ~draw
  /\ pc = "done" /\ ret = "MISS" /\ counts[0] = 3

\* C2: no false negative: the scan of a line of 0s and 1s that holds a 1
\* returns DETECT, never MISS, whatever the shots measure.
C2_NoFalseNegative ==
  (pc = "done" /\ ~draw /\ Binary(line_data) /\ HasMarked(line_data)) => ret = "DETECT"

\* C3: when the phase vector of a line of 0s and 1s has a -1 entry, the
\* measured state gives non-zero probability to some basis state other than 0.
C3_MassLeavesZero ==
  (Measured /\ Binary(line_data) /\ \E i \in DOMAIN qc[2].phases : qc[2].phases[i] = -1)
    => \E j \in DOMAIN amp : j # 0 /\ amp[j] # 0

\* 2^ceil(log2(max(L,1))) for the lengths of C4
C4_StatedLength(L) ==
  CASE L = 1 -> 1 [] L = 2 -> 2 [] L = 3 -> 4 [] L = 5 -> 8 [] L = 8 -> 8 [] L = 9 -> 16
\* 2^max(1, ceil(log2(L))) for the lengths of C4
C4_BuiltLength(L) ==
  CASE L = 1 -> 2 [] L = 2 -> 2 [] L = 3 -> 4 [] L = 5 -> 8 [] L = 8 -> 8 [] L = 9 -> 16

\* C4 as stated: for a line of length L in {1,2,3,5,8,9} the phase vector has
\* exactly 2^ceil(log2(max(L,1))) entries and every entry at an index >= L is +1.
C4_PaddingAsStated ==
  (o_pc = "done" /\ Len(o_line) \in {1, 2, 3, 5, 8, 9}) =>
    /\ DOMAIN o_ret = 0..(C4_StatedLength(Len(o_line)) - 1)
    /\ \A i \in DOMAIN o_ret : i >= Len(o_line) => o_ret[i] = 1

\* C4 amended: for a line of length L in {1,2,3,5,8,9} the phase vector has
\* exactly 2^max(1, ceil(log2(L))) entries (2 entries for L = 1) and every
\* entry at an index >= L is +1.
C4_PaddingAmended ==
  (o_pc = "done" /\ Len(o_line) \in {1, 2, 3, 5, 8, 9}) =>
    /\ DOMAIN o_ret = 0..(C4_BuiltLength(Len(o_line)) - 1)
    /\ \A i \in DOMAIN o_ret : i >= Len(o_line) => o_ret[i] = 1

C4_Witness ==
  /\ o_pc = "done" /\ o_line = <<1>>
  /\ DOMAIN o_ret = 0..1 /\ o_ret[0] = -1 /\ o_ret[1] = 1

C5_Line == <<0, 0, 1, 0>>

\* C5 as stated: for the line [0,0,1,0] the amplitude of basis state 0 in the
\* measured state is 0.25 and its probability is 0.0625.
C5_ScenarioAsStated ==
  (line_data = C5_Line /\ Measured) =>
    /\ 4 * amp[0] = Pow2(hk \div 2)
    /\ 16 * amp[0] * amp[0] = Pow2(hk)

\* C5 amended: for the line [0,0,1,0] the register has 2 qubits, the phase
\* vector is [+1,+1,-1,+1], the state is [0.5,0.5,0.5,0.5] after the first
\* Hadamard layer and [0.5,0.5,-0.5,0.5] after the oracle, and in the measured
\* state the amplitude of basis state 0 is 0.5 and its probability is 0.25.
C5_ScenarioAmended ==
  (line_data = C5_Line /\ ~draw) =>
    /\ pc # "start" => /\ n_qubits = 2
                       /\ qc[2].phases = [i \in 0..3 |-> IF i = 2 THEN -1 ELSE 1]
    /\ (pc = "sim" /\ ip = 2) => (hk = 2 /\ amp = [i \in 0..3 |-> 1])
    /\ (pc = "sim" /\ ip = 3) => (hk = 2 /\ amp = [i \in 0..3 |-> IF i = 2 THEN -1 ELSE 1])
    /\ Measured => /\ hk = 4
                   /\ 2 * amp[0] = Pow2(hk \div 2)
                   /\ 4 * amp[0] * amp[0] = Pow2(hk)

C5_Witness ==
  /\ line_data = C5_Line /\ pc = "done" /\ ~draw
  /\ amp[0] = 2 /\ hk = 4 /\ ret = "MISS" /\ counts[0] = 3

HasInvalid(line) == \E i \in DOMAIN line : line[i] \notin {0, 1}

\* C6 as stated: a line holding a value other than 0 and 1 is rejected: no
\* phase vector is built for it and the scan returns no verdict.
C6_InvalidRejected ==
  HasInvalid(line_data) =>
    /\ qc = <<>>
    /\ ret \notin {"MISS", "DETECT"}

\* C6 amended: a line holding a value other than 0 and 1 is not rejected: every
\* cell whose value is not 0 is taken for a marked cell (phase -1), every cell
\* whose value is 0 for an empty one (phase +1), and the scan returns a verdict.
C6_InvalidTakenAsMarked ==
  HasInvalid(line_data) =>
    /\ pc # "start" =>
         \A i \in DOMAIN line_data :
           qc[2].phases[i - 1] = (IF line_data[i] = 0 THEN 1 ELSE -1)
    /\ (pc = "done" /\ ~draw) => ret \in {"MISS", "DETECT"}

C6_Witness ==
  /\ line_data = <<0, 2, 0>> /\ ~draw /\ pc = "done"
  /\ qc[2].phases[1] = -1 /\ ret = "DETECT"

IsPow2(N) == \E k \in 0..N : Pow2(k) = N

\* C7: for a non-empty line of 0s and 1s of length L the phase vector has N
\* entries, N the power of two 2^max(1, ceil(log2(L))) (N >= 2, N >= L and
\* N = 2 or N/2 < L), and entry i is -1 exactly when i < L and line[i] = 1;
\* for the empty line the vector is [+1].
C7_PhaseVector ==
  o_pc = "done" =>
    IF o_line = <<>> THEN o_ret = [i \in 0..0 |-> 1]
    ELSE Binary(o_line) =>
      \E N \in 2..(2 * Len(o_line)) :
        /\ DOMAIN o_ret = 0..(N - 1)
        /\ IsPow2(N) /\ N >= Len(o_line)
        /\ N = 2 \/ N \div 2 < Len(o_line)
        /\ \A i \in 0..(N - 1) :
             /\ o_ret[i] \in {-1, 1}
             /\ o_ret[i] = -1 <=> (i < Len(o_line) /\ o_line[i + 1] = 1)

C7_Witness ==
  /\ o_pc = "done" /\ o_line = <<0, 1, 0, 0, 1>>
  /\ DOMAIN o_ret = 0..7 /\ o_ret[1] = -1 /\ o_ret[4] = -1 /\ o_ret[5] = 1

BoardCells == (0..(SIZE - 1)) \X (0..(SIZE - 1))
DetectedCells ==
  {cell \in BoardCells : row_status[cell[1] + 1] = "DETECT" /\ col_status[cell[2] + 1] = "DETECT"}
CandidateSet == {candidates[k] : k \in DOMAIN candidates}
Known(cell) == known_board[cell[1] + 1][cell[2] + 1]
HoldsShip(cell) == hidden_board[cell[1] + 1][cell[2] + 1] = 1

\* C9: once the candidates are found they are exactly the cells whose row scan
\* and column scan both returned DETECT; when the game is over every cell of
\* known_board is X or O, a cell is X exactly when it is a candidate that holds
\* a ship, a cell that holds a ship is O only if its row scan or its column
\* scan returned MISS, ships_found is the number of X cells, and
\* ships_found <= total_hits = number of candidates <= SIZE*SIZE.
C9_GameBookkeeping ==
  /\ g_pc \in {"probe", "done"} =>
       /\ CandidateSet = DetectedCells
       /\ Len(candidates) = Cardinality(DetectedCells)
  /\ g_pc = "done" =>
       /\ \A cell \in BoardCells :
            /\ Known(cell) \in {"X", "O"}
            /\ Known(cell) = "X" <=> (cell \in CandidateSet /\ HoldsShip(cell))
            /\ (HoldsShip(cell) /\ Known(cell) = "O") =>
                 (row_status[cell[1] + 1] = "MISS" \/ col_status[cell[2] + 1] = "MISS")
       /\ ships_found = Cardinality({cell \in BoardCells : Known(cell) = "X"})
       /\ ships_found <= total_hits
       /\ total_hits = Len(candidates)
       /\ total_hits <= SIZE * SIZE

C9_Witness ==
  /\ g_pc = "done" /\ SIZE = 2
  /\ Cardinality(ship_coords) = 3
  /\ \E cell \in BoardCells : HoldsShip(cell) /\ Known(cell) = "O"
  /\ total_hits = 1 /\ ships_found = 0

\* C10: place_ships never makes more than 100 attempts for a ship; every
\* coordinate it holds lies on the board; no cell belongs to two placed ships,
\* so the number of coordinates is the sum of the lengths of the placed ships;
\* every ship before the current one was either placed or skipped, and a
\* skipped ship adds no coordinate; until it returns, place_ships can take a
\* step.
C10_PlaceShips ==
  /\ attempts <= 100
  /\ g_pc = "place" => ENABLED NextPlace
  /\ ship_coords \subseteq BoardCells
  /\ Cardinality(ship_coords) = SumSeq(placed_lengths)
  /\ Len(placed_lengths) + Len(skipped) = ship_idx - 1
  /\ g_pc = "placed" => ship_idx = Len(SHIP_LENGTHS) + 1

C10_Witness ==
  /\ g_pc = "placed" /\ Len(SHIP_LENGTHS) = 2
  /\ Len(placed_lengths) = 1 /\ Len(skipped) = 1
  /\ Cardinality(ship_coords) = placed_lengths[1]

====
